---- MODULE Spec2Model ----
(***************************************************************************)
(* Model of wayvnc's src/buffer.c: shared-memory pixel buffers             *)
(* (wv_buffer_create / wv_buffer_destroy) and the pool that recycles them  *)
(* (wv_buffer_pool_create / resize / acquire / release / destroy).         *)
(*                                                                         *)
(* A fourcc is a uint32_t.  TLC's integers are 32-bit signed, so a fourcc  *)
(* is kept as the pair [hi, lo]: hi is bit 31 (DRM_FORMAT_BIG_ENDIAN), lo  *)
(* the low 31 bits.                                                        *)
(***************************************************************************)
EXTENDS Integers, Sequences, FiniteSets, TLC

VARIABLES
    ndebug,     \* the build: TRUE when assert() is compiled out (NDEBUG)
    pool,       \* struct wv_buffer_pool: width, height, stride, format
    poolLive,   \* FALSE once wv_buffer_pool_destroy freed the pool record
    queue,      \* pool->queue, the TAILQ of idle buffers, head first
    bufs,       \* the struct wv_buffer records ever constructed, by identity
    nbufs,      \* how many buffers were constructed so far
    out,        \* buffers the caller holds (acquired or created, not yet given back)
    freed,      \* buffers whose record was freed by wv_buffer_destroy
    log,        \* per buffer: the primitive calls made on its behalf, in order
    aborted,    \* TRUE once an assert() failed and the process aborted
    last        \* the last operation, its result and the primitive calls it made

vars == <<ndebug, pool, poolLive, queue, bufs, nbufs, out, freed, log, aborted, last>>

----------------------------------------------------------------------------
\* Bounds of the model

\* at most this many buffers are ever constructed
MaxBufs == 2

----------------------------------------------------------------------------
\* Pixel formats (libdrm/drm_fourcc.h, wayland-client-protocol.h)

DRM_FORMAT_ARGB8888 == 875713089
DRM_FORMAT_XRGB8888 == 875713112
DRM_FORMAT_ABGR8888 == 875708993
DRM_FORMAT_XBGR8888 == 875709016
DRM_FORMAT_RGBA8888 == 875708754
DRM_FORMAT_RGBX8888 == 875714642
DRM_FORMAT_BGRA8888 == 875708738
DRM_FORMAT_BGRX8888 == 875714626
\* a fourcc the pixman table does not list
DRM_FORMAT_RGB565 == 909199186
WL_SHM_FORMAT_ARGB8888 == 0
WL_SHM_FORMAT_XRGB8888 == 1

\* a little-endian fourcc (bit 31 clear) and its big-endian variant
LE(code) == [hi |-> 0, lo |-> code]
BE(code) == [hi |-> 1, lo |-> code]

\* in & DRM_FORMAT_BIG_ENDIAN
BigEndianBit(in) == in.hi = 1

\* a mutant of fourcc_to_wl_shm: no format has a protocol constant of its own
fourcc_to_wl_shm_PassThrough(in) == in

\* fourcc_to_wl_shm: two formats have their own protocol constant, every
\* other value passes through as its raw number
fourcc_to_wl_shm(in) ==
    IF in = LE(DRM_FORMAT_ARGB8888) THEN LE(WL_SHM_FORMAT_ARGB8888)
    ELSE IF in = LE(DRM_FORMAT_XRGB8888) THEN LE(WL_SHM_FORMAT_XRGB8888)
    ELSE in

\* a mutant of fourcc_to_pixman_fmt: the default case accepts the format
fourcc_to_pixman_fmt_AcceptAll(src) ==
    [ok |-> TRUE, dst |-> "PIXMAN_a8r8g8b8"]

\* fourcc_to_pixman_fmt: ok is the bool returned, dst the value stored in *dst
fourcc_to_pixman_fmt(src) ==
    IF src = LE(DRM_FORMAT_ARGB8888) THEN [ok |-> TRUE, dst |-> "PIXMAN_a8r8g8b8"]
    ELSE IF src = LE(DRM_FORMAT_XRGB8888) THEN [ok |-> TRUE, dst |-> "PIXMAN_x8r8g8b8"]
    ELSE IF src = LE(DRM_FORMAT_ABGR8888) THEN [ok |-> TRUE, dst |-> "PIXMAN_a8b8g8r8"]
    ELSE IF src = LE(DRM_FORMAT_XBGR8888) THEN [ok |-> TRUE, dst |-> "PIXMAN_x8b8g8r8"]
    ELSE IF src = LE(DRM_FORMAT_RGBA8888) THEN [ok |-> TRUE, dst |-> "PIXMAN_r8g8b8a8"]
    ELSE IF src = LE(DRM_FORMAT_RGBX8888) THEN [ok |-> TRUE, dst |-> "PIXMAN_r8g8b8x8"]
    ELSE IF src = LE(DRM_FORMAT_BGRA8888) THEN [ok |-> TRUE, dst |-> "PIXMAN_b8g8r8a8"]
    ELSE IF src = LE(DRM_FORMAT_BGRX8888) THEN [ok |-> TRUE, dst |-> "PIXMAN_b8g8r8x8"]
    ELSE [ok |-> FALSE, dst |-> "0"]

\* the eight formats of the pixman table
Supported ==
    { LE(DRM_FORMAT_ARGB8888), LE(DRM_FORMAT_XRGB8888), LE(DRM_FORMAT_ABGR8888),
      LE(DRM_FORMAT_XBGR8888), LE(DRM_FORMAT_RGBA8888), LE(DRM_FORMAT_RGBX8888),
      LE(DRM_FORMAT_BGRA8888), LE(DRM_FORMAT_BGRX8888) }

----------------------------------------------------------------------------
\* Inputs

Shape(w, h, s, f) == [width |-> w, height |-> h, stride |-> s, format |-> f]

\* the shapes callers pass to the pool: a base shape, one shape differing from it in each
\* single field, a format the pixman table lacks, and a big-endian fourcc
Shapes ==
    { Shape(2, 2, 8, LE(DRM_FORMAT_ARGB8888)),
      Shape(1, 2, 8, LE(DRM_FORMAT_ARGB8888)),
      Shape(2, 1, 8, LE(DRM_FORMAT_ARGB8888)),
      Shape(2, 2, 12, LE(DRM_FORMAT_ARGB8888)),
      Shape(2, 2, 8, LE(DRM_FORMAT_XRGB8888)),
      Shape(2, 2, 8, LE(DRM_FORMAT_RGB565)),
      Shape(2, 2, 8, BE(DRM_FORMAT_ARGB8888)) }

\* the shapes a caller passes to wv_buffer_create itself: a format with a
\* protocol constant of its own, one that passes through, a format the
\* pixman table lacks, a big-endian fourcc, and a shape whose
\* height * stride is 2^31, one more than an int holds
BufferShapes ==
    { Shape(2, 2, 8, LE(DRM_FORMAT_ARGB8888)),
      Shape(1, 2, 12, LE(DRM_FORMAT_BGRX8888)),
      Shape(2, 2, 8, LE(DRM_FORMAT_RGB565)),
      Shape(2, 2, 8, BE(DRM_FORMAT_ARGB8888)),
      Shape(8192, 65536, 32768, LE(DRM_FORMAT_XRGB8888)) }

\* what each failable primitive of wv_buffer_create does in one call:
\* TRUE when it succeeds
AllOutcomes ==
    [calloc : BOOLEAN, shm_alloc_fd : BOOLEAN, mmap : BOOLEAN,
     pixman_image_create_bits : BOOLEAN, wl_shm_create_pool : BOOLEAN,
     wl_shm_pool_create_buffer : BOOLEAN]

\* at most one primitive besides mmap fails in a call (wv_buffer_create stops
\* at the first failure it tests for, so what a later primitive would have
\* done is never seen); mmap may fail together with any of them
Outcomes ==
    {o \in AllOutcomes :
        Cardinality({f \in DOMAIN o \ {"mmap"} : ~o[f]}) <= 1}

----------------------------------------------------------------------------
\* Primitive calls

\* one call of a primitive: for an acquiring call ok says it succeeded, for a
\* releasing call ok says its argument was a live resource
Ev(call, ok) == [call |-> call, ok |-> ok]

\* a call that is passed a byte length
EvSize(call, ok, size) == [call |-> call, ok |-> ok, size |-> size]

\* a call that is passed a pixel format
EvFmt(call, ok, fmt) == [call |-> call, ok |-> ok, fmt |-> fmt]

Acquirer ==
    [record |-> "calloc", fd |-> "shm_alloc_fd", mapping |-> "mmap",
     image |-> "pixman_image_create_bits", shm_pool |-> "wl_shm_create_pool",
     wl_buffer |-> "wl_shm_pool_create_buffer"]

Releaser ==
    [record |-> "free", fd |-> "close", mapping |-> "munmap",
     image |-> "pixman_image_unref", shm_pool |-> "wl_shm_pool_destroy",
     wl_buffer |-> "wl_buffer_destroy"]

Resources == DOMAIN Acquirer

\* how often a call occurs in a trace
Count(tr, call) == Cardinality({i \in DOMAIN tr : tr[i].call = call})

\* how often a call occurs in a trace with the given ok
CountOk(tr, call, ok) ==
    Cardinality({i \in DOMAIN tr : tr[i].call = call /\ tr[i].ok = ok})

\* the resources a trace acquired and did not release
Held(tr) ==
    {r \in Resources : CountOk(tr, Acquirer[r], TRUE) > CountOk(tr, Releaser[r], TRUE)}

----------------------------------------------------------------------------
\* struct wv_buffer

NullBuf ==
    [width |-> 0, height |-> 0, stride |-> 0, format |-> LE(0), size |-> 0,
     pixels |-> "NULL", image |-> "NULL", wl_buffer |-> "NULL"]

\* mmap returns the mapped address, or MAP_FAILED ((void*) -1) on failure
mmap(ok) == IF ok THEN "mapped" ELSE "MAP_FAILED"

\* the test of wv_buffer_create after mmap: !self->pixels
MmapFailed(pixels) == pixels = "NULL"

\* a mutant of wv_buffer_create_success: the descriptor is not closed
wv_buffer_create_success_NoClose == <<>>

\* the tail of wv_buffer_create on full success
wv_buffer_create_success == <<Ev("close", TRUE)>>

\* the unwinding labels of wv_buffer_create; each falls through to the next
failure == <<Ev("free", TRUE)>>

mmap_failure == <<Ev("close", TRUE)>> \o failure

pixman_failure(self) ==
    <<EvSize("munmap", self.pixels = "mapped", self.size)>>
        \o mmap_failure

pool_failure(self) ==
    <<Ev("pixman_image_unref", self.image = "image")>> \o pixman_failure(self)

shm_failure(self) == pool_failure(self)

\* a mutant of CreateHandle: the transient pool is destroyed only after the
\* test of the handle, so a failed handle creation leaves it alive
CreateHandle_DestroyAfterTest(ok, wl_fmt) ==
    <<EvFmt("wl_shm_pool_create_buffer", ok, wl_fmt)>>
        \o (IF ok THEN <<Ev("wl_shm_pool_destroy", TRUE)>> ELSE <<>>)

\* the handle is created from the transient pool and the pool is destroyed
\* at once, before the handle is tested
CreateHandle(ok, wl_fmt) ==
    <<EvFmt("wl_shm_pool_create_buffer", ok, wl_fmt),
      Ev("wl_shm_pool_destroy", TRUE)>>

INT_MAX == 2147483647

INT_MIN == -INT_MAX - 1

\* a * b for two positive int: the values the expression can have.  When
\* the product exceeds INT_MAX the signed overflow is undefined behaviour;
\* a build then yields the wrapped value (INT_MIN for a product of 2^31) or
\* anything else, of which 0 stands for the rest
IntMul(a, b) ==
    IF a <= INT_MAX \div b THEN {a * b} ELSE {INT_MIN, 0}

\* wv_buffer_create: product is the value height * stride had; ret is "ok"
\* (self returned), "NULL" or "abort" (an assert failed); trace is the
\* primitive calls made, in order
wv_buffer_create(width, height, stride, fourcc, o, product) ==
    LET wl_fmt == fourcc_to_wl_shm(fourcc)
        pf == fourcc_to_pixman_fmt(fourcc)
        size == product
        self0 == [NullBuf EXCEPT !.width = width, !.height = height,
                                 !.stride = stride, !.format = fourcc,
                                 !.size = size]
        self1 == [self0 EXCEPT !.pixels = mmap(o.mmap)]
        self2 == [self1 EXCEPT !.image =
                     IF o.pixman_image_create_bits THEN "image" ELSE "NULL"]
        self3 == [self2 EXCEPT !.wl_buffer =
                     IF o.wl_shm_pool_create_buffer THEN "wl_buffer" ELSE "NULL"]
        t0 == <<Ev("calloc", o.calloc)>>
        t1 == t0 \o <<EvSize("shm_alloc_fd", o.shm_alloc_fd, size)>>
        t2 == t1 \o <<EvSize("mmap", o.mmap, size)>>
        t3 == t2 \o <<EvFmt("pixman_image_create_bits", o.pixman_image_create_bits,
                            pf.dst)>>
        t4 == t3 \o <<EvSize("wl_shm_create_pool", o.wl_shm_create_pool, size)>>
        t5 == t4 \o CreateHandle(o.wl_shm_pool_create_buffer, wl_fmt)
        Fail(tr) == [ret |-> "NULL", self |-> NullBuf, trace |-> tr]
    IN  IF ~ndebug /\ BigEndianBit(fourcc)
            THEN [ret |-> "abort", self |-> NullBuf, trace |-> <<>>]
        ELSE IF ~pf.ok THEN Fail(<<>>)
        ELSE IF ~o.calloc THEN Fail(t0)
        ELSE IF ~o.shm_alloc_fd THEN Fail(t1 \o failure)
        ELSE IF MmapFailed(self1.pixels) THEN Fail(t2 \o mmap_failure)
        ELSE IF self2.image = "NULL" THEN Fail(t3 \o pixman_failure(self2))
        ELSE IF ~o.wl_shm_create_pool THEN Fail(t4 \o pool_failure(self2))
        ELSE IF self3.wl_buffer = "NULL" THEN Fail(t5 \o shm_failure(self3))
        ELSE [ret |-> "ok", self |-> self3, trace |-> t5 \o wv_buffer_create_success]

\* a mutant of wv_buffer_destroy: the memory is unmapped before the image
\* that views it is released
wv_buffer_destroy_UnmapFirst(self) ==
    << Ev("wl_buffer_destroy", self.wl_buffer = "wl_buffer"),
       EvSize("munmap", self.pixels = "mapped", self.size),
       Ev("pixman_image_unref", self.image = "image"),
       Ev("free", TRUE) >>

\* wv_buffer_destroy: the primitive calls it makes for the record self
wv_buffer_destroy(self) ==
    << Ev("wl_buffer_destroy", self.wl_buffer = "wl_buffer"),
       Ev("pixman_image_unref", self.image = "image"),
       EvSize("munmap", self.pixels = "mapped", self.size),
       Ev("free", TRUE) >>

----------------------------------------------------------------------------
\* struct wv_buffer_pool

\* a mutant of ShapeDiffers: the test is dropped, every resize clears the queue
ShapeDiffers_Always(p, s) == TRUE

\* a mutant of ShapeDiffers: the format is not compared
ShapeDiffers_NoFormat(p, s) ==
    p.width # s.width \/ p.height # s.height \/ p.stride # s.stride

\* the comparison of wv_buffer_pool_resize: some field differs
ShapeDiffers(p, s) ==
    p.width # s.width \/ p.height # s.height
        \/ p.stride # s.stride \/ p.format # s.format

\* a mutant of ShapeMatches: the stride is not compared
ShapeMatches_NoStride(p, b) ==
    p.width = b.width /\ p.height = b.height /\ p.format = b.format

\* the comparison of wv_buffer_pool_release and of the assert in
\* wv_buffer_pool_acquire: all four fields agree
ShapeMatches(p, b) ==
    p.width = b.width /\ p.height = b.height
        /\ p.stride = b.stride /\ p.format = b.format

\* the TAILQ macros of sys/queue.h, on the queue as a sequence, head first
TAILQ_INSERT_HEAD(q, b) == <<b>> \o q

TAILQ_INSERT_TAIL(q, b) == Append(q, b)

\* a mutant of ReleaseInsert: the buffer is inserted at the head
ReleaseInsert_Head(q, b) == TAILQ_INSERT_HEAD(q, b)

\* where wv_buffer_pool_release puts a buffer it keeps
ReleaseInsert(q, b) == TAILQ_INSERT_TAIL(q, b)

TAILQ_FIRST(q) == Head(q)

\* TAILQ_REMOVE: the queue without the buffer b
TAILQ_REMOVE(q, b) == SelectSeq(q, LAMBDA x : x # b)

\* a mutant of AcquireRemove: the buffer handed out stays in the queue
AcquireRemove_Forgotten(q, b) == q

\* wv_buffer_pool_acquire takes the buffer it hands out off the queue
AcquireRemove(q, b) == TAILQ_REMOVE(q, b)

\* a mutant of ClearedQueue: the loop stops after the first buffer
ClearedQueue_OnlyFirst(q) == IF q = <<>> THEN <<>> ELSE <<Head(q)>>

\* the buffers wv_buffer_pool_clear removes and destroys, in order
ClearedQueue(q) == q

RECURSIVE DestroyAll(_, _)
\* the per-buffer logs after wv_buffer_destroy ran on each buffer of q in turn
DestroyAll(lg, q) ==
    IF q = <<>> THEN lg
    ELSE DestroyAll([lg EXCEPT ![Head(q)] = @ \o wv_buffer_destroy(bufs[Head(q)])],
                    Tail(q))

RECURSIVE ClearCalls(_)
\* the primitive calls wv_buffer_pool_clear makes on the buffers of q, in order
ClearCalls(q) ==
    IF q = <<>> THEN <<>>
    ELSE wv_buffer_destroy(bufs[Head(q)]) \o ClearCalls(Tail(q))

\* the last statement of wv_buffer_pool_destroy: free(pool)
FreePool == <<Ev("free(pool)", TRUE)>>

\* the elements of a sequence
Range(q) == {q[i] : i \in DOMAIN q}

\* the assignments at the end of wv_buffer_pool_resize
NewPoolShape(p, s) ==
    [width |-> s.width, height |-> s.height, stride |-> s.stride, format |-> s.format]

\* the calls of a trace without their arguments
Calls(tr) == [i \in DOMAIN tr |-> [call |-> tr[i].call, ok |-> tr[i].ok]]

NoShape == [width |-> 0, height |-> 0, stride |-> 0, format |-> LE(0)]

\* the record of an operation: its name, the shape it was passed (or passed
\* on to wv_buffer_create), its result (ret, and buf when a buffer is
\* returned or was passed), the primitive calls it made, and the buffers it
\* destroyed, in order
Op(op, shape, ret, buf, trace, destroyed) ==
    [op |-> op, shape |-> shape, ret |-> ret, buf |-> buf,
     trace |-> Calls(trace), destroyed |-> destroyed]

----------------------------------------------------------------------------
\* Initial state: wv_buffer_pool_create(width, height, stride, format) returned
\* a pool with an empty queue, and no buffer exists
InitPool(shapes) ==
    /\ pool \in shapes
    /\ poolLive = TRUE
    /\ queue = <<>>
    /\ bufs = [b \in 1..MaxBufs |-> NullBuf]
    /\ nbufs = 0
    /\ out = {}
    /\ freed = {}
    /\ log = [b \in 1..MaxBufs |-> <<>>]
    /\ aborted = FALSE
    /\ last = Op("wv_buffer_pool_create", pool, "ok", 0, <<>>, <<>>)

\* the pool in the default build, where assert() is compiled in
Init ==
    /\ ndebug = FALSE
    /\ InitPool(Shapes)

\* the effect of a call of wv_buffer_create made by operation op
Construct(op, s, o) ==
    \E product \in IntMul(s.height, s.stride) :
    LET r == wv_buffer_create(s.width, s.height, s.stride, s.format, o, product)
        b == nbufs + 1
    IN  /\ nbufs < MaxBufs
        /\ IF r.ret = "abort"
              THEN /\ aborted' = TRUE
                   /\ last' = Op(op, s, "abort", 0, r.trace, <<>>)
                   /\ UNCHANGED <<bufs, nbufs, out, log>>
           ELSE IF r.ret = "NULL"
              THEN /\ last' = Op(op, s, "NULL", 0, r.trace, <<>>)
                   /\ UNCHANGED <<bufs, nbufs, out, log, aborted>>
           ELSE /\ bufs' = [bufs EXCEPT ![b] = r.self]
                /\ nbufs' = b
                /\ out' = out \cup {b}
                /\ log' = [log EXCEPT ![b] = r.trace]
                /\ last' = Op(op, s, "ok", b, r.trace, <<>>)
                /\ UNCHANGED aborted

\* the caller constructs a buffer itself
CallerCreate(s, o) ==
    /\ ~aborted
    /\ Construct("wv_buffer_create", s, o)
    /\ UNCHANGED <<ndebug, pool, poolLive, queue, freed>>

\* the caller destroys a buffer it holds
CallerDestroy(b) ==
    /\ ~aborted
    /\ b \in out
    /\ out' = out \ {b}
    /\ freed' = freed \cup {b}
    /\ log' = [log EXCEPT ![b] = @ \o wv_buffer_destroy(bufs[b])]
    /\ last' = Op("wv_buffer_destroy", NoShape, "void", b,
                  wv_buffer_destroy(bufs[b]), <<b>>)
    /\ UNCHANGED <<ndebug, pool, poolLive, queue, bufs, nbufs, aborted>>

\* wv_buffer_pool_destroy: clear the queue, free the pool
wv_buffer_pool_destroy ==
    /\ ~aborted /\ poolLive
    /\ LET gone == ClearedQueue(queue)
       IN  /\ queue' = SelectSeq(queue, LAMBDA x : x \notin Range(gone))
           /\ freed' = freed \cup Range(gone)
           /\ log' = DestroyAll(log, gone)
    /\ poolLive' = FALSE
    /\ last' = Op("wv_buffer_pool_destroy", NoShape, "void", 0,
                  ClearCalls(ClearedQueue(queue)) \o FreePool,
                  ClearedQueue(queue))
    /\ UNCHANGED <<ndebug, pool, bufs, nbufs, out, aborted>>

\* wv_buffer_pool_resize
wv_buffer_pool_resize(s) ==
    /\ ~aborted /\ poolLive
    /\ IF ShapeDiffers(pool, s)
          THEN LET gone == ClearedQueue(queue)
               IN  /\ queue' = SelectSeq(queue, LAMBDA x : x \notin Range(gone))
                   /\ freed' = freed \cup Range(gone)
                   /\ log' = DestroyAll(log, gone)
          ELSE UNCHANGED <<queue, freed, log>>
    /\ pool' = NewPoolShape(pool, s)
    /\ last' = Op("wv_buffer_pool_resize", s, "void", 0,
                  IF ShapeDiffers(pool, s) THEN ClearCalls(ClearedQueue(queue))
                                           ELSE <<>>,
                  IF ShapeDiffers(pool, s) THEN ClearedQueue(queue) ELSE <<>>)
    /\ UNCHANGED <<ndebug, poolLive, bufs, nbufs, out, aborted>>

\* wv_buffer_pool_acquire
wv_buffer_pool_acquire ==
    /\ ~aborted /\ poolLive
    /\ IF queue # <<>>
          THEN LET buffer == TAILQ_FIRST(queue)
               IN  IF ~ndebug /\ ~ShapeMatches(pool, bufs[buffer])
                      THEN /\ aborted' = TRUE
                           /\ last' = Op("wv_buffer_pool_acquire", pool, "abort", 0, <<>>, <<>>)
                           /\ UNCHANGED <<queue, out, bufs, nbufs, log>>
                      ELSE /\ queue' = AcquireRemove(queue, buffer)
                           /\ out' = out \cup {buffer}
                           /\ last' = Op("wv_buffer_pool_acquire", pool, "ok", buffer, <<>>, <<>>)
                           /\ UNCHANGED <<bufs, nbufs, log, aborted>>
          ELSE /\ \E o \in Outcomes : Construct("wv_buffer_pool_acquire", pool, o)
               /\ UNCHANGED queue
    /\ UNCHANGED <<ndebug, pool, poolLive, freed>>

\* wv_buffer_pool_release of a buffer the caller holds
wv_buffer_pool_release(buffer) ==
    /\ ~aborted /\ poolLive
    /\ buffer \in out
    /\ out' = out \ {buffer}
    /\ IF ShapeMatches(pool, bufs[buffer])
          THEN /\ queue' = ReleaseInsert(queue, buffer)
               /\ last' = Op("wv_buffer_pool_release", NoShape, "void", buffer, <<>>, <<>>)
               /\ UNCHANGED <<freed, log>>
          ELSE /\ freed' = freed \cup {buffer}
               /\ log' = [log EXCEPT ![buffer] = @ \o wv_buffer_destroy(bufs[buffer])]
               /\ last' = Op("wv_buffer_pool_release", NoShape, "void", buffer,
                             wv_buffer_destroy(bufs[buffer]), <<buffer>>)
               /\ UNCHANGED queue
    /\ UNCHANGED <<ndebug, pool, poolLive, bufs, nbufs, aborted>>

\* the pool and its caller
Next ==
    \/ \E s \in Shapes : wv_buffer_pool_resize(s)
    \/ wv_buffer_pool_acquire
    \/ \E b \in 1..MaxBufs : wv_buffer_pool_release(b)
    \/ wv_buffer_pool_destroy

Spec == Init /\ [][Next]_vars

\* buffers constructed and destroyed by the caller itself, no pool involved
\* (either build; the pool is left alone)
InitBuffer ==
    /\ ndebug \in BOOLEAN
    /\ InitPool({Shape(2, 2, 8, LE(DRM_FORMAT_ARGB8888))})

NextBuffer ==
    \/ \E s \in BufferShapes, o \in Outcomes : CallerCreate(s, o)
    \/ \E b \in 1..MaxBufs : CallerDestroy(b)

SpecBuffer == InitBuffer /\ [][NextBuffer]_vars

\* how far around each fourcc of the tables the inputs of the translations go
FourccSpread == 2

\* the fourcc codes the two translations name, and one they do not
TableCodes ==
    { DRM_FORMAT_ARGB8888, DRM_FORMAT_XRGB8888, DRM_FORMAT_ABGR8888,
      DRM_FORMAT_XBGR8888, DRM_FORMAT_RGBA8888, DRM_FORMAT_RGBX8888,
      DRM_FORMAT_BGRA8888, DRM_FORMAT_BGRX8888, DRM_FORMAT_RGB565 }

\* the fourcc values given to the translations: each code of the tables and
\* its neighbours, the same codes with DRM_FORMAT_BIG_ENDIAN set, and the
\* small numbers, among them the values of the protocol constants
Fourccs ==
    {LE(c + d) : c \in TableCodes, d \in (-FourccSpread)..FourccSpread}
        \cup {BE(c) : c \in TableCodes}
        \cup {LE(n) : n \in 0..FourccSpread}

\* every primitive of wv_buffer_create succeeds
AllSucceed ==
    [calloc |-> TRUE, shm_alloc_fd |-> TRUE, mmap |-> TRUE,
     pixman_image_create_bits |-> TRUE, wl_shm_create_pool |-> TRUE,
     wl_shm_pool_create_buffer |-> TRUE]

\* the record of one call of a translation: the value it returned, or stored
\* in *dst, is the fmt of the one event of the trace
Translated(op, in, ret, ok, fmt) ==
    [op |-> op, shape |-> Shape(0, 0, 0, in), ret |-> ret, buf |-> 0,
     trace |-> IF ret = "abort" THEN <<>> ELSE <<EvFmt("return", ok, fmt)>>,
     destroyed |-> <<>>]

\* a call of fourcc_to_wl_shm with the pool's format
Call_fourcc_to_wl_shm ==
    /\ ~aborted
    /\ IF ~ndebug /\ BigEndianBit(pool.format)
          THEN /\ aborted' = TRUE
               /\ last' = Translated("fourcc_to_wl_shm", pool.format, "abort",
                                     FALSE, LE(0))
          ELSE /\ last' = Translated("fourcc_to_wl_shm", pool.format, "ok", TRUE,
                                     fourcc_to_wl_shm(pool.format))
               /\ UNCHANGED aborted
    /\ UNCHANGED <<ndebug, pool, poolLive, queue, bufs, nbufs, out, freed, log>>

\* a call of fourcc_to_pixman_fmt with the pool's format
Call_fourcc_to_pixman_fmt ==
    /\ ~aborted
    /\ IF ~ndebug /\ BigEndianBit(pool.format)
          THEN /\ aborted' = TRUE
               /\ last' = Translated("fourcc_to_pixman_fmt", pool.format, "abort",
                                     FALSE, "0")
          ELSE /\ last' = Translated("fourcc_to_pixman_fmt", pool.format, "ok",
                                     fourcc_to_pixman_fmt(pool.format).ok,
                                     fourcc_to_pixman_fmt(pool.format).dst)
               /\ UNCHANGED aborted
    /\ UNCHANGED <<ndebug, pool, poolLive, queue, bufs, nbufs, out, freed, log>>

\* the two translations on their own and inside wv_buffer_create, for a pool
\* of any format (either build)
InitFormats ==
    /\ ndebug \in BOOLEAN
    /\ InitPool({Shape(2, 2, 8, f) : f \in Fourccs})

NextFormats ==
    \/ Call_fourcc_to_wl_shm
    \/ Call_fourcc_to_pixman_fmt
    \/ CallerCreate(pool, AllSucceed)

SpecFormats == InitFormats /\ [][NextFormats]_vars

----------------------------------------------------------------------------
\* Properties of the pool (checked under Spec)

\* b has the four shape fields of p
HasShape(b, p) ==
    /\ b.width = p.width
    /\ b.height = p.height
    /\ b.stride = p.stride
    /\ b.format = p.format

\* the step is a call of the operation op that returned
Called(op) == last'.op = op /\ ~aborted'

\* C1: every buffer wv_buffer_pool_acquire returns, taken from the idle queue
\* or newly constructed, has the width, height, stride and format of the
\* pool's target shape at that acquire (acquire leaves the target shape as it
\* is, so that is the shape right after it)
C1_AcquiredHasPoolShape ==
    (last.op = "wv_buffer_pool_acquire" /\ last.ret = "ok")
        => HasShape(bufs[last.buf], pool)

\* an acquire took a buffer from the idle queue after buffers of another
\* shape had been discarded
C1_Witness ==
    /\ last.op = "wv_buffer_pool_acquire" /\ last.ret = "ok"
    /\ last.trace = <<>>
    /\ \E f \in freed : ~HasShape(bufs[f], pool)

\* C2: every buffer in the idle queue has the pool's current target shape,
\* and the shape assertion of wv_buffer_pool_acquire never fails
C2_QueueHasPoolShape ==
    /\ \A i \in DOMAIN queue : HasShape(bufs[queue[i]], pool)
    /\ ~(aborted /\ last.op = "wv_buffer_pool_acquire" /\ queue # <<>>)

\* a buffer was released into the idle queue after a buffer of an earlier
\* shape had been discarded
C2_Witness ==
    /\ last.op = "wv_buffer_pool_release"
    /\ queue = <<last.buf>>
    /\ \E f \in freed : ~HasShape(bufs[f], pool)

\* C3: the idle queue is first in, first out: a release of a buffer of the
\* pool's shape appends it at the tail, and an acquire on a non-empty queue
\* removes and returns the head, the buffer released longest ago, and
\* constructs nothing
C3_Fifo ==
    [][ /\ (Called("wv_buffer_pool_release") /\ HasShape(bufs[last'.buf], pool))
            => queue' = Append(queue, last'.buf)
        /\ (Called("wv_buffer_pool_acquire") /\ queue # <<>>)
            => /\ last'.ret = "ok"
               /\ last'.buf = Head(queue)
               /\ queue' = Tail(queue)
               /\ nbufs' = nbufs
               /\ last'.trace = <<>> ]_vars

\* buffer 2 was released before buffer 1, and the acquire returned buffer 2
C3_Witness ==
    /\ last.op = "wv_buffer_pool_acquire" /\ last.ret = "ok"
    /\ last.buf = 2
    /\ queue = <<1>>

\* C4: a release of a buffer that differs from the pool's target shape in some
\* field destroys the buffer and does not queue it; the idle queue is left as
\* it was and holds no buffer of the released buffer's shape
C4_ReleaseMismatchDestroys ==
    [][ (Called("wv_buffer_pool_release") /\ ~HasShape(bufs[last'.buf], pool))
            => /\ last'.buf \notin freed
               /\ last'.buf \in freed'
               /\ log'[last'.buf] = log[last'.buf] \o wv_buffer_destroy(bufs[last'.buf])
               /\ queue' = queue
               /\ \A i \in DOMAIN queue' :
                     /\ queue'[i] # last'.buf
                     /\ ~HasShape(bufs[queue'[i]], bufs[last'.buf]) ]_vars

\* a buffer of an old shape was released and destroyed while a buffer of the
\* new shape sat in the idle queue
C4_Witness ==
    /\ last.op = "wv_buffer_pool_release"
    /\ last.destroyed = <<last.buf>>
    /\ last.buf \in freed
    /\ queue # <<>>

\* C5: a resize to a shape that differs from the target shape in some field
\* destroys every buffer of the idle queue, each exactly once, and leaves the
\* queue empty; after every resize the target shape is the shape passed
C5_ResizeDiscards ==
    [][ Called("wv_buffer_pool_resize")
            => /\ HasShape(pool', last'.shape)
               /\ ~HasShape(pool, last'.shape)
                    => /\ queue' = <<>>
                       /\ \A i \in DOMAIN queue :
                             /\ queue[i] \notin freed
                             /\ queue[i] \in freed'
                             /\ log'[queue[i]] =
                                   log[queue[i]] \o wv_buffer_destroy(bufs[queue[i]])
                             /\ Count(log'[queue[i]], "free") = 1 ]_vars

\* a resize to another shape destroyed two idle buffers
C5_Witness ==
    /\ last.op = "wv_buffer_pool_resize"
    /\ Len(last.destroyed) = 2
    /\ queue = <<>>
    /\ \A f \in freed : ~HasShape(bufs[f], pool)

\* C6: a resize to the target shape itself changes nothing: the idle queue
\* keeps the same buffers in the same order, none is destroyed and the target
\* shape stays (so any number of such resizes does what one does)
C6_ResizeSameShapeNoop ==
    [][ (Called("wv_buffer_pool_resize") /\ HasShape(pool, last'.shape))
            => UNCHANGED <<pool, queue, bufs, nbufs, out, freed, log>> ]_vars

\* a resize left two buffers in the idle queue
C6_Witness ==
    /\ last.op = "wv_buffer_pool_resize"
    /\ Len(queue) = 2
    /\ last.destroyed = <<>>

C11_PoolDestroyClearsQueue ==
    [][ Called("wv_buffer_pool_destroy")
            => /\ last'.destroyed = queue
               /\ \A i, j \in DOMAIN queue : queue[i] = queue[j] => i = j
               /\ \A i \in DOMAIN queue :
                     /\ queue[i] \notin freed
                     /\ queue[i] \in freed'
                     /\ log'[queue[i]] =
                           log[queue[i]] \o wv_buffer_destroy(bufs[queue[i]])
                     /\ Count(log'[queue[i]], "free") = 1
               /\ queue' = <<>>
               /\ freed' = freed \cup Range(queue)
               /\ out' = out
               /\ \A b \in out : b \notin freed' /\ log'[b] = log[b]
               /\ ~poolLive'
               /\ Count(last'.trace, "free(pool)") = 1
               /\ last'.trace[Len(last'.trace)].call = "free(pool)"
               /\ Count(last'.trace, "free") = Len(queue) ]_vars

\* the pool was destroyed with one buffer idle and another checked out
C11_Witness ==
    /\ last.op = "wv_buffer_pool_destroy"
    /\ Len(last.destroyed) = 1
    /\ out # {}
    /\ out \cap freed = {}

\* the calls of a teardown in the order handle, image view, memory, record
DestroyOrder ==
    <<"wl_buffer_destroy", "pixman_image_unref", "munmap", "free">>

\* the names of the last n calls of a trace, in order
LastCalls(tr, n) == [i \in 1..n |-> tr[Len(tr) - n + i].call]

\* C15: a destroyed buffer was torn down by destroying the protocol handle,
\* then releasing the image view, then unmapping the memory, then freeing
\* the record, each once: the image view goes before the memory it views and
\* the record goes last, whichever operation destroyed the buffer
C15_DestroyOrder ==
    \A b \in freed :
        /\ Len(log[b]) >= 4
        /\ LastCalls(log[b], 4) = DestroyOrder
        /\ \A i \in 1..(Len(log[b]) - 4) :
              log[b][i].call \notin {"wl_buffer_destroy", "pixman_image_unref",
                                     "munmap", "free"}

\* one buffer was destroyed by a release and another by wv_buffer_pool_destroy
C15_Witness ==
    /\ last.op = "wv_buffer_pool_destroy"
    /\ Len(last.destroyed) = 1
    /\ Cardinality(freed) = 2
    /\ LastCalls(last.trace, 1) = <<"free(pool)">>

----------------------------------------------------------------------------
\* Properties of buffer construction and destruction (checked under SpecBuffer)

\* the last operation was a call of wv_buffer_create
Created == last.op = "wv_buffer_create"

\* C7: wv_buffer_create returns either a buffer whose mapping, image view and
\* protocol handle are all valid, or NULL with none of these resources held
C7_AllOrNothing ==
    Created =>
        /\ last.ret = "ok"
            => /\ bufs[last.buf].pixels = "mapped"
               /\ bufs[last.buf].image = "image"
               /\ bufs[last.buf].wl_buffer = "wl_buffer"
        /\ last.ret = "NULL" => Held(last.trace) = {}

\* C8 as stated: for every fourcc outside the pixman table wv_buffer_create
\* returns NULL and calls no primitive
C8_UnsupportedReturnsNull ==
    (Created /\ last.shape.format \notin Supported)
        => (last.ret = "NULL" /\ last.trace = <<>>)

\* C8 amended: for every fourcc outside the pixman table wv_buffer_create
\* calls no primitive (no allocation, nothing acquired); it returns NULL
\* unless the fourcc has the DRM_FORMAT_BIG_ENDIAN bit and assertions are
\* compiled in, where the assertion of fourcc_to_wl_shm stops the process
C8_UnsupportedAcquiresNothing ==
    (Created /\ last.shape.format \notin Supported)
        => /\ last.trace = <<>>
           /\ last.ret = IF BigEndianBit(last.shape.format) /\ ~ndebug
                            THEN "abort" ELSE "NULL"

\* wv_buffer_create refused a little-endian fourcc the table lacks
C8_Witness ==
    /\ Created
    /\ last.shape.format = LE(DRM_FORMAT_RGB565)
    /\ last.ret = "NULL"

\* C9: a buffer that was created and then destroyed holds nothing: its
\* descriptor was closed once and its transient pool destroyed once (both by
\* wv_buffer_create, so they hold of a live buffer too), and munmap,
\* pixman_image_unref, wl_buffer_destroy and free were each called once
C9_CreateDestroyReleasesAll ==
    /\ \A b \in out \cup freed :
          /\ bufs[b].format \in Supported
          /\ Count(log[b], "shm_alloc_fd") = 1
          /\ Count(log[b], "close") = 1
          /\ Count(log[b], "wl_shm_create_pool") = 1
          /\ Count(log[b], "wl_shm_pool_destroy") = 1
          /\ {"fd", "shm_pool"} \cap Held(log[b]) = {}
    /\ \A b \in out :
          /\ Count(log[b], "munmap") = 0
          /\ Count(log[b], "pixman_image_unref") = 0
          /\ Count(log[b], "wl_buffer_destroy") = 0
    /\ \A b \in freed :
          /\ Count(log[b], "munmap") = 1
          /\ Count(log[b], "pixman_image_unref") = 1
          /\ Count(log[b], "wl_buffer_destroy") = 1
          /\ Count(log[b], "free") = 1
          /\ Held(log[b]) = {}

\* a buffer with a valid mapping was created and has been destroyed
C9_Witness ==
    /\ last.op = "wv_buffer_destroy"
    /\ last.buf \in freed
    /\ bufs[last.buf].pixels = "mapped"
    /\ bufs[last.buf].format = LE(DRM_FORMAT_XRGB8888)

\* the last call of wv_buffer_create saw mmap fail
MmapReportedFailure ==
    /\ Created
    /\ CountOk(last.trace, "mmap", FALSE) = 1

\* C12: when mmap reports failure wv_buffer_create gives up: it closes the
\* descriptor, calls no munmap, creates no image view, protocol pool or
\* protocol handle, and returns NULL
C12_MmapFailureAborts ==
    MmapReportedFailure =>
        /\ last.ret = "NULL"
        /\ Count(last.trace, "close") = 1
        /\ Count(last.trace, "munmap") = 0
        /\ Count(last.trace, "pixman_image_create_bits") = 0
        /\ Count(last.trace, "wl_shm_create_pool") = 0
        /\ Count(last.trace, "wl_shm_pool_create_buffer") = 0

\* the calls that release something
ReleaseCalls == {Releaser[r] : r \in Resources}

\* the resource a releasing call releases
ReleasedBy(call) == CHOOSE r \in Resources : Releaser[r] = call

\* the order in which wv_buffer_create's unwinding must release: the reverse
\* of the order of acquisition
UnwindRank ==
    [shm_pool |-> 1, image |-> 2, mapping |-> 3, fd |-> 4, record |-> 5]

\* C13: on every failure path of wv_buffer_create exactly the resources
\* acquired before the failing step are released, in reverse order of
\* acquisition (transient pool, image view, mapping, descriptor, record); no
\* resource that was not acquired is released and none is released twice
C13_UnwindExact ==
    (Created /\ last.ret = "NULL") =>
        /\ Held(last.trace) = {}
        /\ \A i \in DOMAIN last.trace :
              last.trace[i].call \in ReleaseCalls
                 => /\ last.trace[i].ok
                    /\ CountOk(last.trace, Acquirer[ReleasedBy(last.trace[i].call)],
                               TRUE) = 1
                    /\ Count(last.trace, last.trace[i].call) = 1
        /\ \A i, j \in DOMAIN last.trace :
              (/\ i < j
               /\ last.trace[i].call \in ReleaseCalls
               /\ last.trace[j].call \in ReleaseCalls)
                 => UnwindRank[ReleasedBy(last.trace[i].call)]
                       < UnwindRank[ReleasedBy(last.trace[j].call)]

\* C14: when wl_shm_create_pool succeeds, the transient pool is destroyed
\* exactly once, by the call that directly follows the attempt to create the
\* handle and before wv_buffer_create returns, whether the handle was
\* created or not; when no pool was created none is destroyed
C14_TransientPoolDestroyedOnce ==
    Created =>
        IF CountOk(last.trace, "wl_shm_create_pool", TRUE) = 1
            THEN /\ Count(last.trace, "wl_shm_pool_destroy") = 1
                 /\ Count(last.trace, "wl_shm_pool_create_buffer") = 1
                 /\ \A i \in DOMAIN last.trace :
                       last.trace[i].call = "wl_shm_pool_create_buffer"
                          => /\ i < Len(last.trace)
                             /\ last.trace[i + 1].call = "wl_shm_pool_destroy"
                             /\ last.trace[i - 1].call = "wl_shm_create_pool"
                 /\ "shm_pool" \notin Held(last.trace)
            ELSE /\ Count(last.trace, "wl_shm_pool_destroy") = 0
                 /\ Count(last.trace, "wl_shm_pool_create_buffer") = 0

\* a call that created the transient pool and then failed to create the handle
C14_Witness ==
    /\ Created
    /\ last.ret = "NULL"
    /\ CountOk(last.trace, "wl_shm_create_pool", TRUE) = 1
    /\ CountOk(last.trace, "wl_shm_pool_create_buffer", FALSE) = 1
    /\ \E b \in out : CountOk(log[b], "wl_shm_pool_destroy", TRUE) = 1

\* the value height * stride has as an integer, when an int can hold it
FitsInt(a, b) == a <= INT_MAX \div b

\* the sizes passed to the calls of that name in a trace
SizesPassed(tr, call) == {tr[i].size : i \in {j \in DOMAIN tr : tr[j].call = call}}

\* C17: every buffer constructed from (width, height, stride, fourcc) has
\* size = height * stride; that one value is the size given to
\* shm_alloc_fd, mmap and wl_shm_create_pool and later to munmap; and width,
\* height, stride, format and size keep their values for the buffer's life
C17_SizeIsHeightTimesStride ==
    \A b \in 1..nbufs :
        /\ FitsInt(bufs[b].height, bufs[b].stride)
        /\ bufs[b].size = bufs[b].height * bufs[b].stride
        /\ SizesPassed(log[b], "shm_alloc_fd") = {bufs[b].size}
        /\ SizesPassed(log[b], "mmap") = {bufs[b].size}
        /\ SizesPassed(log[b], "wl_shm_create_pool") = {bufs[b].size}
        /\ SizesPassed(log[b], "munmap") \subseteq {bufs[b].size}
        /\ b \in freed => SizesPassed(log[b], "munmap") = {bufs[b].size}

----------------------------------------------------------------------------
\* Properties of the format translations (checked under SpecFormats)

\* the eight formats the pixel-format translation is said to accept
ListedFormats ==
    { LE(DRM_FORMAT_ARGB8888), LE(DRM_FORMAT_XRGB8888), LE(DRM_FORMAT_ABGR8888),
      LE(DRM_FORMAT_XBGR8888), LE(DRM_FORMAT_RGBA8888), LE(DRM_FORMAT_RGBX8888),
      LE(DRM_FORMAT_BGRA8888), LE(DRM_FORMAT_BGRX8888) }

\* the protocol format a fourcc is said to have
ProtocolFormat(in) ==
    CASE in = LE(DRM_FORMAT_ARGB8888) -> LE(WL_SHM_FORMAT_ARGB8888)
      [] in = LE(DRM_FORMAT_XRGB8888) -> LE(WL_SHM_FORMAT_XRGB8888)
      [] OTHER -> in

\* what the translations returned is what was said, and every buffer
\* got its handle with the protocol format of its fourcc
TranslationsAsListed ==
    /\ (last.op = "fourcc_to_wl_shm" /\ last.ret = "ok")
          => last.trace = <<EvFmt("return", TRUE, ProtocolFormat(last.shape.format))>>
    /\ (last.op = "fourcc_to_pixman_fmt" /\ last.ret = "ok")
          => /\ Len(last.trace) = 1
             /\ last.trace[1].ok = (last.shape.format \in ListedFormats)
    /\ WL_SHM_FORMAT_ARGB8888 # WL_SHM_FORMAT_XRGB8888
    /\ \A b \in 1..nbufs :
          /\ bufs[b].format \in ListedFormats
          /\ \E i \in DOMAIN log[b] :
                /\ log[b][i].call = "wl_shm_pool_create_buffer"
                /\ log[b][i].fmt = ProtocolFormat(bufs[b].format)

\* C16 as stated: fourcc_to_wl_shm returns a value for every fourcc (never
\* fails), its own protocol constant for ARGB8888 and XRGB8888 and the raw
\* number otherwise; fourcc_to_pixman_fmt returns true for exactly the eight
\* listed formats and false for every other fourcc; the handle is created
\* with the result of fourcc_to_wl_shm
C16_TranslationsTotal ==
    /\ TranslationsAsListed
    /\ last.op \in {"fourcc_to_wl_shm", "fourcc_to_pixman_fmt"} => last.ret = "ok"

\* C16: for every fourcc without DRM_FORMAT_BIG_ENDIAN, fourcc_to_wl_shm
\* returns the protocol constant of ARGB8888 and XRGB8888 and the raw number of
\* any other fourcc, fourcc_to_pixman_fmt returns true for exactly the eight
\* listed formats and false otherwise, and the handle is created with the
\* result of fourcc_to_wl_shm; for a fourcc with DRM_FORMAT_BIG_ENDIAN both
\* translations abort on their assert when it is compiled in, and behave
\* as above (raw number, false) when it is not
C16_TranslationsExceptBigEndian ==
    /\ TranslationsAsListed
    /\ last.op \in {"fourcc_to_wl_shm", "fourcc_to_pixman_fmt"}
          => (last.ret = "abort") = (~ndebug /\ BigEndianBit(last.shape.format))

\* XRGB8888 was translated to its protocol constant after a buffer of that
\* format got its handle
C16_Witness ==
    /\ last.op = "fourcc_to_wl_shm"
    /\ last.ret = "ok"
    /\ last.shape.format = LE(DRM_FORMAT_XRGB8888)
    /\ nbufs >= 1

----------------------------------------------------------------------------
\* Properties of the pool as a whole (checked under Spec)

\* every constructed buffer is in exactly one of: checked out, in the idle
\* queue (once), destroyed (once)
InOnePlace ==
    /\ out \cup Range(queue) \cup freed = 1..nbufs
    /\ out \cap Range(queue) = {}
    /\ out \cap freed = {}
    /\ Range(queue) \cap freed = {}
    /\ \A i, j \in DOMAIN queue : queue[i] = queue[j] => i = j
    /\ \A b \in 1..MaxBufs :
          Count(log[b], "free") = IF b \in freed THEN 1 ELSE 0

\* C18: every constructed buffer is at all times in exactly one of three
\* places, checked out, in the idle queue (at most once) or destroyed; none is
\* destroyed twice, none that is destroyed is in the queue or returned by
\* acquire, and acquire never returns a buffer that is still checked out
C18_Conservation ==
    /\ []InOnePlace
    /\ [][ (Called("wv_buffer_pool_acquire") /\ last'.ret = "ok")
              => /\ last'.buf \notin out
                 /\ last'.buf \notin freed
                 /\ last'.buf \in out'
                 /\ last'.buf \notin freed'
                 /\ \A b \in freed : b \in freed' /\ log'[b] = log[b] ]_vars

\* a buffer came back out of the queue after another one had been destroyed
C18_Witness ==
    /\ last.op = "wv_buffer_pool_acquire"
    /\ last.ret = "ok"
    /\ last.trace = <<>>
    /\ last.buf \in out
    /\ freed # {}

\* C19: whether wv_buffer_pool_release keeps or destroys a buffer depends
\* only on the pool's shape at the time of the release: a buffer of that
\* shape goes to the tail of the queue and is not destroyed, whatever resizes
\* happened while it was checked out, and a later acquire returns it from the
\* queue; a buffer of another shape is destroyed
C19_ReleaseDecidedAtReleaseTime ==
    [][ /\ Called("wv_buffer_pool_release")
            => IF HasShape(bufs[last'.buf], pool)
                  THEN /\ queue' = Append(queue, last'.buf)
                       /\ last'.buf \notin freed'
                       /\ log'[last'.buf] = log[last'.buf]
                  ELSE /\ queue' = queue
                       /\ last'.buf \in freed'
        /\ (Called("wv_buffer_pool_acquire") /\ queue # <<>>)
            => /\ last'.ret = "ok"
               /\ last'.buf = Head(queue)
               /\ last'.buf \notin freed' ]_vars

\* buffer 1 was checked out when buffer 2 was constructed for another shape,
\* so the pool was resized away from the shape of buffer 1 while it was checked
\* out; the pool has that shape again, and buffer 1, released since, came
\* back from the queue
C19_Witness ==
    /\ last.op = "wv_buffer_pool_acquire"
    /\ last.ret = "ok"
    /\ last.trace = <<>>
    /\ last.buf = 1
    /\ HasShape(bufs[1], pool)
    /\ nbufs = 2
    /\ ~HasShape(bufs[2], pool)

\* C20: only wv_buffer_pool_resize changes the pool's shape; acquire on a
\* non-empty queue removes exactly the head and constructs and destroys
\* nothing; acquire on an empty queue leaves it empty; release of a buffer of
\* the pool's shape adds exactly that buffer at the tail and destroys nothing
C20_Frame ==
    [][ /\ pool' # pool => last'.op = "wv_buffer_pool_resize"
        /\ (last'.op \in {"wv_buffer_pool_acquire", "wv_buffer_pool_release"})
              => pool' = pool
        /\ (Called("wv_buffer_pool_acquire") /\ queue # <<>>)
              => /\ queue' = Tail(queue)
                 /\ out' = out \cup {Head(queue)}
                 /\ last'.trace = <<>>
                 /\ UNCHANGED <<nbufs, bufs, freed, log>>
        /\ (Called("wv_buffer_pool_acquire") /\ queue = <<>>)
              => /\ queue' = <<>>
                 /\ freed' = freed
        /\ (Called("wv_buffer_pool_release") /\ HasShape(bufs[last'.buf], pool))
              => /\ Len(queue') = Len(queue) + 1
                 /\ SubSeq(queue', 1, Len(queue)) = queue
                 /\ queue'[Len(queue')] = last'.buf
                 /\ last'.trace = <<>>
                 /\ UNCHANGED <<nbufs, bufs, freed, log>> ]_vars

\* the head of a queue of two was handed out and nothing was ever destroyed
C20_Witness ==
    /\ last.op = "wv_buffer_pool_acquire"
    /\ last.ret = "ok"
    /\ last.trace = <<>>
    /\ Len(queue) = 1
    /\ queue[1] # last.buf
    /\ freed = {}

====
